---- MODULE Spec2Model ----
(***************************************************************************)
(* Sample ingestion of mesh-map: functions/put-sample.js.                  *)
(*                                                                         *)
(* Each request runs onRequest.  The handler parses the location, takes    *)
(* the timestamp, lowercases the path, builds ONE metadata object and      *)
(* hands a read-merge-write callback to retry(); the promise retry()       *)
(* returns is not awaited, so the handler answers 'OK' in the same         *)
(* synchronous run.  The callback then proceeds at the store's pace: its   *)
(* suspension points are the read, the write and the backoff of retry().   *)
(*                                                                         *)
(* content/shared.js (parseLocation, ageInDays, sampleKey, retry) and the  *)
(* KV store are not part of the sources; they are modelled from spec.md.   *)
(*                                                                         *)
(* Time is counted in ticks of one rate-limit window (one second); a day   *)
(* is scaled down to DayTicks ticks.                                       *)
(***************************************************************************)
EXTENDS Integers, Sequences, FiniteSets, TLC

\* ---------------------------------------------------------------- bounds
NumReqs == 2        \* concurrent requests
MaxLen == 2         \* longest path of a request body
MaxTime == 2        \* the clock stops here
DayTicks == 2       \* one day, in ticks
MaxAttempts == 2    \* retry budget of retry()
Window == 1         \* KV: one write per key per second (one tick)

Reqs == 1..NumReqs

\* ------------------------------------------------------------ option type
Null == <<>>
Some(x) == <<x>>
Get(o) == o[1]

\* ------------------------------------------------------------ pure helpers
Range(s) == {s[i] : i \in 1..Len(s)}

\* Array.prototype.includes: exact (case-sensitive) match
Includes(path, p) == \E i \in 1..Len(path) : path[i] = p

\* String.prototype.toLowerCase over the alphabet of the model
ToLowerCase(s) ==
    CASE s = "A" -> "a"
      [] s = "B" -> "b"
      [] s = "C" -> "c"
      [] OTHER -> s

RawEdges == {"a", "A", "B"}
RawCoords == {"1", "2", "x"}

RECURSIVE SeqsUpTo(_, _)
SeqsUpTo(S, n) ==
    IF n = 0 THEN {<<>>}
    ELSE LET shorter == SeqsUpTo(S, n - 1)
         IN  shorter \cup {Append(s, e) : s \in {t \in shorter : Len(t) = n - 1}, e \in S}

\* request bodies: { lat, lon, path } where path may be missing
Bodies ==
    {[lat |-> la, lon |-> lo, hasPath |-> TRUE, path |-> p] :
        la \in RawCoords, lo \in {"1", "x"}, p \in SeqsUpTo(RawEdges, MaxLen)}
    \cup
    {[lat |-> la, lon |-> lo, hasPath |-> FALSE, path |-> <<>>] :
        la \in RawCoords, lo \in {"1", "x"}}

\* (data?.path ?? []).map(p => p.toLowerCase())
PathAsGiven(data) == IF data.hasPath THEN data.path ELSE <<>>

LowerPath(data) ==
    IF data.hasPath
    THEN [i \in 1..Len(data.path) |-> ToLowerCase(data.path[i])]
    ELSE <<>>

\* ------------------------------------------------- content/shared.js (spec)
IsNumber(raw) == raw \in {"1", "2"}
ToNumber(raw) == IF raw = "1" THEN 1 ELSE IF raw = "2" THEN 2 ELSE 0

\* parseLocation throws when either input is not a number
ParseLocationThrows(rawLat, rawLon) == ~IsNumber(rawLat) \/ ~IsNumber(rawLon)
ParseLocation(rawLat, rawLon) == <<ToNumber(rawLat), ToNumber(rawLon)>>

\* sampleKey embeds both coordinates
SampleKey(lat, lon) == <<lat, lon>>

\* ageInDays: (now - time) in whole days
AgeInDays(time, clock) == (clock - time) \div DayTicks

Keys == {SampleKey(1, 1), SampleKey(2, 1)}
NoKey == SampleKey(0, 0)

\* the arguments the handler passes to parseLocation
ParseArgsLatOnly(data) == <<data.lat, data.lat>>
ParseArgs(data) == <<data.lat, data.lon>>

\* ------------------------------------------------------ the callback's body
\* resp.metadata.path.forEach(p => { if (!path.includes(p)) path.push(p) })
RECURSIVE MergePathNoCheck(_, _)
MergePathNoCheck(path, old) ==
    IF old = <<>> THEN path
    ELSE MergePathNoCheck(Append(path, Head(old)), Tail(old))

RECURSIVE MergePath(_, _)
MergePath(path, old) ==
    IF old = <<>> THEN path
    ELSE MergePath(IF Includes(path, Head(old)) THEN path ELSE Append(path, Head(old)),
                   Tail(old))

\* resp.value !== null && resp.metadata !== null && ageInDays(resp.metadata.time) < 1
IsFreshWithinTwoDays(resp, clock) ==
    /\ resp.value # Null
    /\ resp.metadata # Null
    /\ AgeInDays(Get(resp.metadata).time, clock) <= 1

IsFresh(resp, clock) ==
    /\ resp.value # Null
    /\ resp.metadata # Null
    /\ AgeInDays(Get(resp.metadata).time, clock) < 1

\* the metadata object after the merge step of one attempt; the object is the
\* one built before retry() and is mutated in place
MergedMetadataRefreshTime(metadata, resp, clock) ==
    IF IsFresh(resp, clock)
    THEN [time |-> clock, path |-> MergePath(metadata.path, Get(resp.metadata).path)]
    ELSE [metadata EXCEPT !.time = clock]

MergedMetadataNoMerge(metadata, resp, clock) == metadata

MergedMetadata(metadata, resp, clock) ==
    IF IsFresh(resp, clock)
    THEN [metadata EXCEPT !.path = MergePath(metadata.path, Get(resp.metadata).path)]
    ELSE metadata

\* store.put(key, "", { metadata }): the entry that replaces the stored one
PutEntryMerging(old, metadata) ==
    [value |-> Some(""),
     metadata |-> Some(IF old.metadata = Null THEN metadata
                       ELSE [metadata EXCEPT
                               !.path = MergePath(metadata.path, Get(old.metadata).path)])]

PutEntry(old, metadata) == [value |-> Some(""), metadata |-> Some(metadata)]

\* the options of the put name the metadata only: no expirationTtl
PutExpirationTtlOfSibling(metadata) == Some(15552000)
PutExpirationTtl(metadata) == Null

\* the first suspension point of the callback retry() runs: the read
CallbackEntryAtPut == "put"
CallbackEntry == "read"

\* ------------------------------------------------------------------- state
VARIABLES
    now,        \* Date.now()
    store,      \* SAMPLES: key -> [value, metadata]
    lastPut,    \* store: tick of the last accepted put of a key (-1: long ago)
    ttl,        \* store: the expiration a put asked for, per key
    writer,     \* history: the request whose put is stored (0: before the run)
    pc,         \* per request: "idle", "read", "put", "backoff", "done"
    key,        \* per request: sampleKey(lat, lon)
    metadata,   \* per request: { time, path }, shared by all attempts
    newPath,    \* history: the request's lowercased path as first built
    raw,        \* history: the lat and lon of the request body
    arrived,    \* history: the clock when the request arrived
    attempt,    \* per request: attempts started by retry()
    response,   \* per request: "none", "OK", "InvalidLocation"
    outcome,    \* per request: the promise of retry()
    readLog,    \* history: what each attempt's read returned
    prev        \* history: the entry an accepted put replaced

vars == <<now, store, lastPut, ttl, writer, pc, key, metadata, newPath, raw, arrived,
          attempt, response, outcome, readLog, prev>>

Absent == [value |-> Null, metadata |-> Null]
Entry(time, path) == [value |-> Some(""), metadata |-> Some([time |-> time, path |-> path])]

\* entries earlier ingests left in the store
InitEntries == {Absent, Entry(0, <<"a", "c">>)}

Init ==
    /\ now = 0
    /\ store \in [Keys -> InitEntries]
    /\ lastPut = [k \in Keys |-> -1]
    /\ ttl = [k \in Keys |-> Null]
    /\ writer = [k \in Keys |-> 0]
    /\ pc = [r \in Reqs |-> "idle"]
    /\ key = [r \in Reqs |-> NoKey]
    /\ metadata = [r \in Reqs |-> [time |-> 0, path |-> <<>>]]
    /\ newPath = [r \in Reqs |-> <<>>]
    /\ raw = [r \in Reqs |-> <<"", "">>]
    /\ arrived = [r \in Reqs |-> 0]
    /\ attempt = [r \in Reqs |-> 0]
    /\ response = [r \in Reqs |-> "none"]
    /\ outcome = [r \in Reqs |-> "none"]
    /\ readLog = [r \in Reqs |-> <<>>]
    /\ prev = [r \in Reqs |-> Null]

\* ----------------------------------------------------------------- actions
\* onRequest, from the parsed body to the returned response; requests are
\* numbered in the order they arrive
Request(r, data) ==
    /\ pc[r] = "idle"
    /\ \A q \in Reqs : q < r => pc[q] # "idle"
    /\ raw' = [raw EXCEPT ![r] = <<data.lat, data.lon>>]
    /\ LET args == ParseArgs(data)
       IN IF ParseLocationThrows(args[1], args[2])
          THEN /\ response' = [response EXCEPT ![r] = "InvalidLocation"]
               /\ pc' = [pc EXCEPT ![r] = "done"]
               /\ UNCHANGED <<key, metadata, newPath, arrived, attempt, outcome>>
          ELSE LET loc == ParseLocation(args[1], args[2])
                   path == LowerPath(data)
               IN /\ arrived' = [arrived EXCEPT ![r] = now]
                  /\ key' = [key EXCEPT ![r] = SampleKey(loc[1], loc[2])]
                  /\ metadata' = [metadata EXCEPT ![r] = [time |-> now, path |-> path]]
                  /\ newPath' = [newPath EXCEPT ![r] = path]
                  \* retry(...) starts the first attempt; nothing awaits it
                  /\ attempt' = [attempt EXCEPT ![r] = 1]
                  /\ outcome' = [outcome EXCEPT ![r] = "pending"]
                  /\ pc' = [pc EXCEPT ![r] = CallbackEntry]
                  /\ response' = [response EXCEPT ![r] = "OK"]
    /\ UNCHANGED <<now, store, lastPut, ttl, writer, readLog, prev>>

\* getWithMetadata resolves; the callback merges and issues the put
ReadDone(r) ==
    /\ pc[r] = "read"
    /\ LET resp == store[key[r]]
       IN /\ metadata' = [metadata EXCEPT ![r] = MergedMetadata(metadata[r], resp, now)]
          /\ readLog' = [readLog EXCEPT
                           ![r] = Append(@, [resp |-> resp, by |-> writer[key[r]],
                                             at |-> now])]
    /\ pc' = [pc EXCEPT ![r] = "put"]
    /\ UNCHANGED <<now, store, lastPut, ttl, writer, key, newPath, raw, arrived, attempt,
                   response, outcome, prev>>

\* the store rejects a second write to a key inside one window
RateLimited(k) == lastPut[k] >= 0 /\ now - lastPut[k] < Window

\* the put is accepted: the callback returns and retry() resolves
PutAccepted(r) ==
    /\ pc[r] = "put"
    /\ ~RateLimited(key[r])
    /\ store' = [store EXCEPT ![key[r]] = PutEntry(@, metadata[r])]
    /\ ttl' = [ttl EXCEPT ![key[r]] = PutExpirationTtl(metadata[r])]
    /\ lastPut' = [lastPut EXCEPT ![key[r]] = now]
    /\ writer' = [writer EXCEPT ![key[r]] = r]
    /\ prev' = [prev EXCEPT ![r] = Some([entry |-> store[key[r]], by |-> writer[key[r]],
                                         at |-> now])]
    /\ outcome' = [outcome EXCEPT ![r] = "resolved"]
    /\ pc' = [pc EXCEPT ![r] = "done"]
    /\ UNCHANGED <<now, key, metadata, newPath, raw, arrived, attempt, response, readLog>>

\* retry(): another attempt is left in the budget
MayRetry(n) == n < MaxAttempts

\* the put is rejected for the rate limit: retry() backs off or gives up
PutRateLimited(r) ==
    /\ pc[r] = "put"
    /\ RateLimited(key[r])
    /\ IF MayRetry(attempt[r])
       THEN /\ pc' = [pc EXCEPT ![r] = "backoff"]
            /\ UNCHANGED outcome
       ELSE /\ pc' = [pc EXCEPT ![r] = "done"]
            /\ outcome' = [outcome EXCEPT ![r] = "RetriesExhausted"]
    /\ UNCHANGED <<now, store, lastPut, ttl, writer, key, metadata, newPath, raw, arrived,
                   attempt, response, readLog, prev>>

\* the backoff delay is over: the whole callback runs again
Backoff(r) ==
    /\ pc[r] = "backoff"
    /\ attempt' = [attempt EXCEPT ![r] = @ + 1]
    /\ pc' = [pc EXCEPT ![r] = CallbackEntry]
    /\ UNCHANGED <<now, store, lastPut, ttl, writer, key, metadata, newPath, raw, arrived,
                   response, outcome, readLog, prev>>

\* any other store error, from the read or the put, is not retried
StoreError(r) ==
    /\ pc[r] \in {"read", "put"}
    /\ outcome' = [outcome EXCEPT ![r] = "IngestFailed"]
    /\ pc' = [pc EXCEPT ![r] = "done"]
    /\ UNCHANGED <<now, store, lastPut, ttl, writer, key, metadata, newPath, raw, arrived,
                   attempt, response, readLog, prev>>

Tick ==
    /\ now < MaxTime
    /\ now' = now + 1
    /\ UNCHANGED <<store, lastPut, ttl, writer, pc, key, metadata, newPath, raw, arrived,
                   attempt, response, outcome, readLog, prev>>

Next ==
    \/ \E r \in Reqs, data \in Bodies : Request(r, data)
    \/ \E r \in Reqs : ReadDone(r)
    \/ \E r \in Reqs : PutAccepted(r)
    \/ \E r \in Reqs : PutRateLimited(r)
    \/ \E r \in Reqs : Backoff(r)
    \/ \E r \in Reqs : StoreError(r)
    \/ Tick

Spec == Init /\ [][Next]_vars

TypeOK ==
    /\ now \in 0..MaxTime
    /\ pc \in [Reqs -> {"idle", "read", "put", "backoff", "done"}]
    /\ attempt \in [Reqs -> 0..MaxAttempts]

\* ------------------------------------------------------ reading the history
\* the edges of a sequence, each once, at the place of its first occurrence
RECURSIVE FirstOccurrences(_)
FirstOccurrences(s) ==
    IF s = <<>> THEN <<>>
    ELSE LET init == FirstOccurrences(SubSeq(s, 1, Len(s) - 1))
             last == s[Len(s)]
         IN  IF last \in Range(init) THEN init ELSE Append(init, last)

NoDuplicates(s) == \A i, j \in 1..Len(s) : s[i] = s[j] => i = j

\* a read found a record
Found(l) == l.resp.value # Null /\ l.resp.metadata # Null
FoundPath(l) == Get(l.resp.metadata).path
\* a read found a record less than one day old
FreshAt(l) == Found(l) /\ l.at - Get(l.resp.metadata).time < DayTicks
\* a read found no record, or one that is a day old or older
StaleAt(l) == ~Found(l) \/ l.at - Get(l.resp.metadata).time >= DayTicks

\* new edges first, then the old edges not among them, in the old order
UnionNewFirst(new, old) ==
    new \o FirstOccurrences(SelectSeq(old, LAMBDA e : e \notin Range(new)))

\* the request has built the record of its first attempt
FirstRecordBuilt(r) == attempt[r] = 1 /\ Len(readLog[r]) = 1
Accepted(r) == outcome[r] = "resolved"
StoredBy(r) == key[r] \in Keys /\ writer[key[r]] = r
StoredPath(k) == Get(store[k].metadata).path
LastRead(r) == readLog[r][Len(readLog[r])]

\* ------------------------------------------------------------------ claims
\* C1: on the first attempt, when the read returns a record less than one day
\* old, the record written is the new edges (lowercased, in input order)
\* followed by the edges of the existing record that are not among them, each
\* once and in the existing record's order; the same record is what the store
\* holds once the put is accepted.
C1_MergeFresh ==
    \A r \in Reqs :
        (FirstRecordBuilt(r) /\ FreshAt(readLog[r][1])) =>
            /\ metadata[r].path = UnionNewFirst(newPath[r], FoundPath(readLog[r][1]))
            /\ (Accepted(r) /\ StoredBy(r)) => StoredPath(key[r]) = metadata[r].path

\* a first attempt merged over a fresh record that shares one edge with the
\* new ones and brings another, and its put was accepted
C1_Witness ==
    \E r \in Reqs :
        /\ FirstRecordBuilt(r) /\ FreshAt(readLog[r][1])
        /\ Accepted(r) /\ StoredBy(r)
        /\ newPath[r] = <<"b", "a">>
        /\ FoundPath(readLog[r][1]) = <<"a", "c">>
        /\ StoredPath(key[r]) = <<"b", "a", "c">>

\* C2: on the first attempt, when the read returns no record or a record a
\* day old or older, the record written holds exactly the new edges.
C2_ReplaceStaleOrAbsent ==
    \A r \in Reqs :
        (FirstRecordBuilt(r) /\ StaleAt(readLog[r][1])) =>
            /\ metadata[r].path = newPath[r]
            /\ (Accepted(r) /\ StoredBy(r)) => StoredPath(key[r]) = newPath[r]

\* a first attempt read a record a day old with edges of its own, and the
\* accepted record has the new edges only
C2_Witness ==
    \E r \in Reqs :
        /\ FirstRecordBuilt(r) /\ Found(readLog[r][1]) /\ StaleAt(readLog[r][1])
        /\ FoundPath(readLog[r][1]) = <<"a", "c">>
        /\ Accepted(r) /\ StoredBy(r)
        /\ newPath[r] = <<"b">>
        /\ StoredPath(key[r]) = <<"b">>

\* C3: a record accepted after rate-limited attempts is built from the new
\* edges and the read of the accepted attempt alone: every edge of it is a new
\* edge or an edge of the fresh record that attempt read.
C3_RetryReflectsLatestRead ==
    \A r \in Reqs :
        (Accepted(r) /\ Len(readLog[r]) > 1) =>
            Range(metadata[r].path) \subseteq
                Range(newPath[r]) \cup
                (IF FreshAt(LastRead(r)) THEN Range(FoundPath(LastRead(r))) ELSE {})

\* C4: the handler answers 'OK' only after a put of the request was accepted.
C4_OkOnlyAfterAcceptedPut ==
    \A r \in Reqs : response[r] = "OK" => Accepted(r)

\* C5: a store error other than the rate limit ends the ingest and the request
\* ends with an error, not with 'OK'.
C5_StoreErrorSurfaces ==
    \A r \in Reqs :
        outcome[r] = "IngestFailed" => pc[r] = "done" /\ response[r] # "OK"

\* C6: when every attempt is rate-limited the ingest stops within the retry
\* budget, the caller gets RetriesExhausted and the stored record is untouched.
C6_BoundedRetrySurfaces ==
    \A r \in Reqs :
        outcome[r] = "RetriesExhausted" =>
            /\ attempt[r] <= MaxAttempts
            /\ prev[r] = Null
            /\ response[r] # "OK"

\* C7: the path of every stored record has no duplicate entry.
C7_NoDuplicateEdges ==
    \A k \in Keys : store[k].metadata # Null => NoDuplicates(StoredPath(k))

\* r ingested the list of q over the fresh record q stored, nobody in between
SecondIngestOf(r, q) ==
    /\ q # r
    /\ Accepted(r) /\ Accepted(q)
    /\ newPath[r] = newPath[q]
    /\ \A i \in 1..Len(readLog[r]) : readLog[r][i].by = q /\ FreshAt(readLog[r][i])
    /\ Get(prev[r]).by = q

\* C8: a second ingest of the same edge list over the fresh record the first
\* ingest of that list stored, with no other writer in between, leaves the
\* edge list of the record as it was.
C8_IdempotentSecondIngest ==
    \A r, q \in Reqs :
        SecondIngestOf(r, q) =>
            /\ metadata[r].path = Get(Get(prev[r]).entry.metadata).path
            /\ StoredBy(r) => StoredPath(key[r]) = Get(Get(prev[r]).entry.metadata).path

\* the first ingest merged into an older record, the second ingest of the same
\* list was rate-limited once and then accepted
C8_Witness ==
    \E r, q \in Reqs :
        /\ SecondIngestOf(r, q)
        /\ StoredBy(r)
        /\ Len(readLog[r]) = 2
        /\ newPath[r] = <<"b", "a">>
        /\ StoredPath(key[r]) = <<"b", "a", "c">>

\* the request has arrived with a lat or lon that is not a number
InvalidLocation(r) == pc[r] # "idle" /\ (~IsNumber(raw[r][1]) \/ ~IsNumber(raw[r][2]))

\* C9: a request whose lat or lon is not a number fails with the location
\* error and makes no store read, no store write and no attempt.
C9_InvalidLocationTerminal ==
    \A r \in Reqs :
        InvalidLocation(r) =>
            /\ response[r] = "InvalidLocation"
            /\ pc[r] = "done"
            /\ attempt[r] = 0 /\ outcome[r] = "none"
            /\ readLog[r] = <<>> /\ prev[r] = Null
            /\ \A k \in Keys : writer[k] # r

\* a request with a valid lat and an invalid lon has failed, and the other
\* request has been through the store meanwhile
C9_Witness ==
    \E r, q \in Reqs :
        /\ InvalidLocation(r) /\ IsNumber(raw[r][1])
        /\ response[r] = "InvalidLocation"
        /\ Accepted(q)

\* both requests read the fresh record before either put, then first put, then second
BothReadBeforeEitherWrote(first, second) ==
    /\ first # second
    /\ key[first] = key[second]
    /\ Accepted(first) /\ Accepted(second)
    /\ Len(readLog[first]) = 1 /\ Len(readLog[second]) = 1
    /\ readLog[first][1].by = 0 /\ readLog[second][1].by = 0
    /\ FreshAt(readLog[first][1]) /\ FreshAt(readLog[second][1])
    /\ Get(prev[second]).by = first
    /\ StoredBy(second)

OnlyFrom(first, second) ==
    Range(newPath[first]) \ (Range(newPath[second]) \cup Range(FoundPath(readLog[second][1])))

\* C10: two ingests of one key that both read the fresh record before either
\* wrote, and whose puts were both accepted: the puts are at least one window
\* apart, the edges of the first writer were in the record the second put
\* replaced, and the record left by the second put has none of the edges only
\* the first writer contributed.
C10_LostUpdateWindow ==
    \A first, second \in Reqs :
        BothReadBeforeEitherWrote(first, second) =>
            /\ Get(prev[second]).at - Get(prev[first]).at >= Window
            /\ Range(newPath[first]) \subseteq Range(Get(Get(prev[second]).entry.metadata).path)
            /\ Range(StoredPath(key[second])) \cap OnlyFrom(first, second) = {}

\* the race has happened and an edge of the first writer is gone
C10_Witness ==
    \E first, second \in Reqs :
        /\ BothReadBeforeEitherWrote(first, second)
        /\ OnlyFrom(first, second) # {}

\* the request got past parseLocation
Ingesting(r) == pc[r] # "idle" /\ key[r] \in Keys
StoredTime(k) == Get(store[k].metadata).time

\* C11: in every attempt, the first and each retry, the store read of the key
\* comes before the put of that attempt: a put is pending or accepted only
\* when the attempt it belongs to has read, and each retry starts at the read.
C11_ReadBeforeWriteEachAttempt ==
    \A r \in Reqs :
        /\ Len(readLog[r]) <= attempt[r]
        /\ (pc[r] = "put" \/ Accepted(r)) => Len(readLog[r]) = attempt[r]
        /\ pc[r] = "read" => Len(readLog[r]) = attempt[r] - 1
        /\ \A i \in 1..Len(readLog[r]) : i > 1 => readLog[r][i].at >= readLog[r][i - 1].at

\* a put was accepted in a retry, after the second read of the request
C11_Witness ==
    \E r \in Reqs :
        /\ Accepted(r) /\ StoredBy(r)
        /\ attempt[r] = 2 /\ Len(readLog[r]) = 2
        /\ readLog[r][2].by # readLog[r][1].by

\* C12: the time of every record an ingest builds or stores is the clock of
\* its arrival, on every attempt and whether the attempt merged or replaced.
C12_TimeIsArrivalTime ==
    \A r \in Reqs :
        Ingesting(r) =>
            /\ metadata[r].time = arrived[r]
            /\ StoredBy(r) => StoredTime(key[r]) = arrived[r]

\* a record accepted in a retry, after the clock moved on, carries the time of
\* the arrival; its first attempt merged and its second replaced
C12_Witness ==
    \E r \in Reqs :
        /\ Accepted(r) /\ StoredBy(r)
        /\ Len(readLog[r]) = 2
        /\ FreshAt(readLog[r][1]) /\ StaleAt(readLog[r][2])
        /\ Get(prev[r]).at > arrived[r]
        /\ StoredTime(key[r]) = arrived[r]

\* C13: an accepted put leaves a time that is not earlier than the time of the
\* record it replaces.
C13_StoredTimeNeverGoesBack ==
    \A r \in Reqs :
        (Accepted(r) /\ Get(prev[r]).entry.metadata # Null) =>
            metadata[r].time >= Get(Get(prev[r]).entry.metadata).time

IsLowercase(e) == e \in {"a", "b", "c"}
AllLowercase(path) == \A i \in 1..Len(path) : IsLowercase(path[i])
\* membership that ignores case
IncludesIgnoringCase(path, p) ==
    \E i \in 1..Len(path) : ToLowerCase(path[i]) = ToLowerCase(p)

\* C14: the store starts with no record or lowercase records only; then every
\* edge of every stored record is lowercase, and so is every edge the merge
\* compares, so that its exact-match test agrees with a case-insensitive one.
C14_LowercaseInvariant ==
    /\ \A k \in Keys : store[k].metadata # Null => AllLowercase(StoredPath(k))
    /\ \A r \in Reqs :
        Ingesting(r) =>
            /\ AllLowercase(metadata[r].path)
            /\ \A i \in 1..Len(readLog[r]) :
                 Found(readLog[r][i]) =>
                    \A p \in Range(FoundPath(readLog[r][i])) :
                        /\ Includes(newPath[r], p) <=> IncludesIgnoringCase(newPath[r], p)
                        /\ Includes(metadata[r].path, p) <=>
                             IncludesIgnoringCase(metadata[r].path, p)

\* an edge sent in uppercase ("B") by two requests in turn is stored lowercase
\* and once: the second request found it in the fresh record of the first
C14_Witness ==
    \E r, q \in Reqs :
        /\ r # q
        /\ Accepted(r) /\ StoredBy(r)
        /\ Len(readLog[r]) = 1 /\ readLog[r][1].by = q /\ FreshAt(readLog[r][1])
        /\ newPath[q] = <<"b">>
        /\ newPath[r] = <<"a", "b">>
        /\ StoredPath(key[r]) = <<"a", "b">>

\* C15: a step changes what the store holds under a key only when a request
\* for that key has its put accepted, and then the entry is the empty value
\* with the metadata of that request and no expiration; the entries of the
\* other keys stay as they are, and a read returns the entry of the request's
\* own key.
C15_Frame ==
    [][ /\ \A k \in Keys :
              (store'[k] # store[k] \/ ttl'[k] # ttl[k] \/ lastPut'[k] # lastPut[k]) =>
                  \E r \in Reqs :
                      /\ key[r] = k
                      /\ pc[r] = "put" /\ outcome'[r] = "resolved"
                      /\ store'[k] = [value |-> Some(""), metadata |-> Some(metadata[r])]
                      /\ ttl'[k] = Null
        /\ \A r \in Reqs :
              Len(readLog'[r]) > Len(readLog[r]) =>
                  readLog'[r][Len(readLog'[r])].resp = store[key[r]]
      ]_vars

\* a request stored its record under one key while the other key still holds
\* the record it started with
C15_Witness ==
    \E r \in Reqs, k \in Keys :
        /\ Accepted(r) /\ StoredBy(r)
        /\ k # key[r]
        /\ store[k] = Entry(0, <<"a", "c">>) /\ writer[k] = 0
        /\ store[key[r]] # store[k]
        /\ ttl[key[r]] = Null

PutAt(r) == Get(prev[r]).at
EdgesOfBoth(r, q) == Range(newPath[r]) \cup Range(newPath[q])

\* second ingested after first: each of its reads returned the record first
\* stored, and its put replaced that record less than a day after first's put
Sequential(first, second) ==
    /\ first # second
    /\ Accepted(first) /\ Accepted(second)
    /\ \A i \in 1..Len(readLog[second]) : readLog[second][i].by = first
    /\ Get(prev[second]).by = first
    /\ PutAt(second) - PutAt(first) < DayTicks

\* C16: for ingests of one key that do not overlap and whose accepted puts are
\* less than a day apart, the record after the later ingest holds the edges of
\* both, and an edge of the earlier record is missing from it only when the
\* later ingest found that record a day old or older.
C16_SequentialIngestsAccumulate ==
    \A first, second \in Reqs :
        Sequential(first, second) =>
            /\ EdgesOfBoth(first, second) \subseteq Range(metadata[second].path)
            /\ ~(Range(Get(Get(prev[second]).entry.metadata).path)
                    \subseteq Range(metadata[second].path))
                 => StaleAt(LastRead(second))

\* both requests read the fresh record before either put; the put of first was
\* accepted, the first put of second was rate-limited, and the retry of second
\* read the record of first and had its put accepted
RaceInOneWindow(first, second) ==
    /\ first # second
    /\ key[first] = key[second]
    /\ Accepted(first) /\ Accepted(second)
    /\ readLog[first][1].by = 0 /\ FreshAt(readLog[first][1])
    /\ readLog[second][1].by = 0 /\ FreshAt(readLog[second][1])
    /\ Len(readLog[second]) >= 2
    /\ \A i \in 2..Len(readLog[second]) : readLog[second][i].by = first
    /\ Get(prev[second]).by = first
    /\ StoredBy(second)

\* C17 as stated: after such a race the record holds the edges of both.
C17_RaceLeavesEdgesOfBoth ==
    \A first, second \in Reqs :
        RaceInOneWindow(first, second) =>
            EdgesOfBoth(first, second) \subseteq Range(StoredPath(key[second]))

\* C17, amended: two puts of one key are never accepted inside one window; a
\* retry reads a record some request stored; and after such a race the record
\* holds the edges of both, provided the record of the first writer was still
\* less than a day old when the retry read it.
C17_RateLimitClosesRace ==
    /\ \A r, q \in Reqs :
          (r # q /\ Accepted(r) /\ Accepted(q) /\ key[r] = key[q] /\ PutAt(r) <= PutAt(q))
              => PutAt(q) - PutAt(r) >= Window
    /\ \A r \in Reqs : \A i \in 2..Len(readLog[r]) : readLog[r][i].by \in Reqs \ {r}
    /\ \A first, second \in Reqs :
          (RaceInOneWindow(first, second) /\ FreshAt(LastRead(second))) =>
              EdgesOfBoth(first, second) \subseteq Range(StoredPath(key[second]))

\* the race has happened and the record has the edge only first brought and
\* the edge only second brought
C17_Witness ==
    \E first, second \in Reqs :
        /\ RaceInOneWindow(first, second) /\ FreshAt(LastRead(second))
        /\ newPath[first] = <<"b">>
        /\ newPath[second] = <<"a">>
        /\ FoundPath(readLog[second][1]) = <<"a", "c">>
        /\ Range(StoredPath(key[second])) = {"a", "b", "c"}
====
